---- MODULE Spec2Model ----
(***************************************************************************)
(* Model of ChakraClient (client.ts): the signalling connection manager.   *)
(*                                                                         *)
(* One action per event handler or public operation.  A handler runs to    *)
(* completion together with the promise continuations it releases (the     *)
(* microtasks drain before the next event is dispatched), so the `open`    *)
(* event, the continuation of connect() after `await onceOpen()` and the   *)
(* continuation of a watchStream() that awaited that connect() make up one *)
(* step.  The client runs in a browser (browser.ts): `window` is defined.  *)
(***************************************************************************)
EXTENDS Integers, Sequences, FiniteSets, TLC

\* ---- bounds of the model ------------------------------------------------
MaxSockets == 3          \* sockets ever created (connect() calls)
MaxCalls == 2            \* watchStream() calls ever issued
MaxRegistry == 4         \* entries of a registry handed to filterCallbacks on its own

\* ---- program constants --------------------------------------------------
ACTION_CONNECT == "Connect"
DEFAULT_reconnectInterval == 2000
DEFAULT_reconnectIntervalMultiplier == 1
OK == 200

\* ---- inputs drawn from small sets ---------------------------------------
Streams == {"A", "B"}
Statuses == {OK, 404}
MsgActions == {ACTION_CONNECT, "Other"}
\* Options(opts): DEFAULT_OPTS, or the caller's overrides of it.
DEFAULT_OPTS == [autoReconnect |-> TRUE,
                 reconnectInterval |-> DEFAULT_reconnectInterval,
                 reconnectIntervalMultiplier |-> DEFAULT_reconnectIntervalMultiplier]
Options == {DEFAULT_OPTS,
            [DEFAULT_OPTS EXCEPT !.reconnectInterval = 500,
                                 !.reconnectIntervalMultiplier = 2],
            [DEFAULT_OPTS EXCEPT !.autoReconnect = FALSE]}

Calls == 1..MaxCalls

VARIABLES
    opts,            \* this.opts: autoReconnect, reconnectInterval, reconnectIntervalMultiplier
    sockets,         \* every WebSocket created so far, by creation order
    socket,          \* this.socket: index into sockets, 0 before the first connect()
    reconnectTries,  \* this.reconnectTries
    destroyed,       \* this.destroyed: read by the close handler and the timer, written by no method
    connected,       \* this.connected
    callbacks,       \* this.callbacks: sequence of [stream, call]
    timers,          \* pending setTimeout reconnects: [id: the socket whose close set it, delay]
    calls,           \* the watchStream() calls: position, name, handler invocations
    errorListener,   \* whether a listener is subscribed to the 'error' notification
    last,            \* history: what the handler that ran last emitted
    hist,            \* history: closes since the last open, and the counter after the last of them
    probe            \* history of a registry operation run on its own: what it was given and did

vars == <<opts, sockets, socket, reconnectTries, destroyed, connected, callbacks,
          timers, calls, errorListener, last, hist, probe>>

\* ---- helpers ------------------------------------------------------------
Range(s) == {s[i] : i \in 1..Len(s)}

Occurrences(s, x) == Cardinality({i \in 1..Len(s) : s[i] = x})

Live(k) == sockets[k] \in {"CONNECTING", "OPEN"}

LiveSockets == {k \in 1..Len(sockets) : Live(k)}

EntriesFor(cbs, stream) == {i \in 1..Len(cbs) : cbs[i].stream = stream}

\* A history record: the handler or operation that ran last emitted the
\* notifications `emitted` and ended by an exception iff `threw`.
Event(emitted, threw) == [emitted |-> emitted, threw |-> threw]

NoEvent == Event(<<>>, FALSE)

NoProbe == [op |-> "none", stream |-> "", before |-> <<>>, invoked |-> <<>>,
            visited |-> <<>>]

\* A watchStream() call: where it stands (pc), its stream name, the socket it
\* waits on (pc "awaitConnect": the socket of its connect(); pc "sent": the
\* open socket whose server holds its request unanswered; 0: none), how many
\* times one of its handlers was invoked and which one last.
IdleCall == [pc |-> "idle", name |-> "", sock |-> 0, fired |-> 0,
             outcome |-> "none"]

Issued == {c \in Calls : calls[c].pc # "idle"}

\* ---- the pending-call registry (client.ts 177-210) ----------------------

\* Array.prototype.splice(i, 1) on a 0-based index.
Splice(cbs, i) == SubSeq(cbs, 1, i) \o SubSeq(cbs, i + 2, Len(cbs))

\* A faulty loop: the index is not stepped back after a removal.
RECURSIVE FilterLoopNoStepBack(_, _, _, _, _)
FilterLoopNoStepBack(cbs, i, stream, invoked, visited) ==
    IF i >= Len(cbs)
    THEN [callbacks |-> cbs, invoked |-> invoked, visited |-> visited]
    ELSE LET callback == cbs[i + 1] IN
         IF callback.stream = stream
         THEN FilterLoopNoStepBack(Splice(cbs, i), i + 1, stream,
                                   Append(invoked, callback.call),
                                   Append(visited, callback.call))
         ELSE FilterLoopNoStepBack(cbs, i + 1, stream, invoked,
                                   Append(visited, callback.call))

\* A faulty loop: the traversal starts over after a removal.
RECURSIVE FilterLoopRestart(_, _, _, _, _)
FilterLoopRestart(cbs, i, stream, invoked, visited) ==
    IF i >= Len(cbs)
    THEN [callbacks |-> cbs, invoked |-> invoked, visited |-> visited]
    ELSE LET callback == cbs[i + 1] IN
         IF callback.stream = stream
         THEN FilterLoopRestart(Splice(cbs, i), 0, stream,
                                Append(invoked, callback.call),
                                Append(visited, callback.call))
         ELSE FilterLoopRestart(cbs, i + 1, stream, invoked,
                                Append(visited, callback.call))

\* filterCallbacks with the handler of resolveCallbacks / rejectCallbacks:
\* the loop `for (i = 0; i < callbacks.length; i++)` from index i on.  The
\* handler invokes the entry's resolve or reject and returns false exactly
\* when callback.stream === stream; the entry is then spliced out and i is
\* decremented before the loop's i++.  `invoked` lists the calls whose handler
\* ran, in order; `visited` lists the calls of the entries the handler was
\* handed (`const callback = this.callbacks[i]`), in order.
RECURSIVE FilterLoop(_, _, _, _, _)
FilterLoop(cbs, i, stream, invoked, visited) ==
    IF i >= Len(cbs)
    THEN [callbacks |-> cbs, invoked |-> invoked, visited |-> visited]
    ELSE LET callback == cbs[i + 1] IN
         IF callback.stream = stream
         THEN FilterLoop(Splice(cbs, i), (i - 1) + 1, stream,
                         Append(invoked, callback.call),
                         Append(visited, callback.call))
         ELSE FilterLoop(cbs, i + 1, stream, invoked,
                         Append(visited, callback.call))

FilterCallbacks(cbs, stream) == FilterLoop(cbs, 0, stream, <<>>, <<>>)

\* A faulty resolveCallbacks: the handlers run but the entries stay.
ResolveCallbacksKeep(cbs, stream) ==
    [callbacks |-> cbs, invoked |-> FilterCallbacks(cbs, stream).invoked,
     visited |-> FilterCallbacks(cbs, stream).visited]

ResolveCallbacks(cbs, stream) == FilterCallbacks(cbs, stream)

\* A faulty rejectCallbacks: nothing is rejected, nothing is removed.
RejectCallbacksNone(cbs, stream) ==
    [callbacks |-> cbs, invoked |-> <<>>, visited |-> <<>>]

RejectCallbacks(cbs, stream) == FilterCallbacks(cbs, stream)

\* The effect on the calls of invoking, for each call in `invoked`, its
\* resolve handler (kind "resolved") or its reject handler (kind "rejected":
\* the error of a non-200 frame; kind "superseded": the error 'Request was
\* cancelled because a new one was made').
Fire(cs, invoked, kind) ==
    [c \in Calls |->
        IF c \in Range(invoked)
        THEN [cs[c] EXCEPT !.fired = @ + Occurrences(invoked, c),
                           !.outcome = kind]
        ELSE cs[c]]

\* The requests that die with socket k or are answered by a frame for
\* `stream` on socket k are no longer held by the server.
Unheld(cs, k, streams) ==
    [c \in Calls |->
        IF cs[c].pc = "sent" /\ cs[c].sock = k /\ cs[c].name \in streams
        THEN [cs[c] EXCEPT !.sock = 0]
        ELSE cs[c]]

\* ---- connection lifecycle (client.ts 108-175) ---------------------------

\* `new WebSocket(...)`: the socket starts CONNECTING.
NewSocket == "CONNECTING"

\* Faulty schedules of the reconnect delay.
ReconnectSchedulePostIncrement(tries, o) ==
    [tries |-> tries + 1,
     delay |-> tries * o.reconnectInterval * o.reconnectIntervalMultiplier]

ReconnectScheduleNoMultiplier(tries, o) ==
    [tries |-> tries + 1,
     delay |-> (tries + 1) * o.reconnectInterval]

ReconnectScheduleNoIncrement(tries, o) ==
    [tries |-> tries,
     delay |-> tries * o.reconnectInterval * o.reconnectIntervalMultiplier]

\* ++this.reconnectTries * reconnectInterval * reconnectIntervalMultiplier:
\* the counter is incremented first and its new value is multiplied.
ReconnectSchedule(tries, o) ==
    LET t == tries + 1 IN
    [tries |-> t,
     delay |-> t * o.reconnectInterval * o.reconnectIntervalMultiplier]

\* watchStream from line 261 on, run by call c: reject what is pending for
\* the name, then push the new entry.
Register(cs, c) ==
    LET name == cs[c].name
        r == RejectCallbacks(callbacks, name)
    IN  /\ callbacks' = Append(r.callbacks, [stream |-> name, call |-> c])
        /\ calls' = [Fire(cs, r.invoked, "superseded")
                        EXCEPT ![c].pc = "registered", ![c].sock = 0]

\* connect() up to `await onceOpen()`: a new socket replaces this.socket.
StartConnect ==
    /\ Len(sockets) < MaxSockets
    /\ sockets' = Append(sockets, NewSocket)
    /\ socket' = Len(sockets) + 1

\* ---- initial state: the client after construction (client.ts 69-74, 90-106)
Init ==
    /\ opts \in Options
    /\ sockets = <<>>
    /\ socket = 0
    /\ reconnectTries = 0
    /\ destroyed = FALSE
    /\ connected = FALSE
    /\ callbacks = <<>>
    /\ timers = {}
    /\ calls = [c \in Calls |-> IdleCall]
    /\ errorListener = FALSE
    /\ last = NoEvent
    /\ hist = [closes |-> 0, afterClose |-> -1]
    /\ probe = NoProbe

\* ---- public operations --------------------------------------------------

\* client.connect() called by the application.
UserConnect ==
    /\ StartConnect
    /\ last' = NoEvent
    /\ UNCHANGED <<opts, probe, reconnectTries, destroyed, connected, callbacks, timers,
                   calls, errorListener, hist>>

\* client.watchStream(name): the promise executor runs synchronously up to its
\* first await.  Connected: it registers at once.  Not connected: it calls
\* connect() and is suspended until that call resolves.
WatchStream(name) ==
    /\ Issued # Calls
    /\ LET c == Cardinality(Issued) + 1 IN
       IF connected
       THEN /\ Register([calls EXCEPT ![c].name = name], c)
            /\ last' = NoEvent
            /\ UNCHANGED <<sockets, socket>>
       ELSE /\ StartConnect
            /\ calls' = [calls EXCEPT ![c] = [@ EXCEPT !.pc = "awaitConnect",
                                                       !.name = name,
                                                       !.sock = Len(sockets) + 1]]
            /\ last' = NoEvent
            /\ UNCHANGED callbacks
    /\ UNCHANGED <<opts, probe, reconnectTries, destroyed, connected, timers,
                   errorListener, hist>>

\* client.on('error', ...) / client.off('error', ...).
SetErrorListener(b) ==
    /\ errorListener # b
    /\ errorListener' = b
    /\ last' = NoEvent
    /\ UNCHANGED <<opts, probe, sockets, socket, reconnectTries, destroyed, connected,
                   callbacks, timers, calls, hist>>

\* The peer of call c emits its offer ('signal' without candidate): send() on
\* this.socket.  The server receives it only when that socket is open; the
\* call remembers that socket (0: the message reached no server).  send() on
\* a socket that is still connecting throws, on a closed one it drops.
Signal(c) ==
    /\ calls[c].pc = "registered"
    /\ LET open == socket # 0 /\ sockets[socket] = "OPEN" IN
       /\ calls' = [calls EXCEPT ![c].pc = "sent",
                                 ![c].sock = IF open THEN socket ELSE 0]
       /\ last' = Event(<<>>, sockets[socket] = "CONNECTING")
    /\ UNCHANGED <<opts, probe, sockets, socket, reconnectTries, destroyed, connected,
                   callbacks, timers, errorListener, hist>>

\* ---- socket events (registerEvents, client.ts 140-175) ------------------

\* 'open' on socket k: onceOpen's handler resolves, connect() resumes, and the
\* watchStream call that awaited this connect() resumes after it.
Open(k) ==
    /\ sockets[k] = "CONNECTING"
    /\ sockets' = [sockets EXCEPT ![k] = "OPEN"]
    /\ reconnectTries' = 0
    /\ connected' = TRUE
    /\ LET waiting == {c \in Calls : calls[c].pc = "awaitConnect" /\ calls[c].sock = k} IN
       IF waiting = {}
       THEN /\ UNCHANGED <<callbacks, calls>>
            /\ last' = Event(<<"connect">>, FALSE)
       ELSE LET c == CHOOSE w \in waiting : TRUE IN
            /\ Register(calls, c)
            /\ last' = Event(<<"connect">>, FALSE)
    /\ hist' = [closes |-> 0, afterClose |-> -1]
    /\ UNCHANGED <<opts, probe, socket, destroyed, timers, errorListener>>

\* A faulty close handler: it also rejects and removes every pending call.
CloseRejectingPending(k) ==
    /\ Live(k)
    /\ sockets' = [sockets EXCEPT ![k] = "CLOSED"]
    /\ connected' = FALSE
    /\ IF opts.autoReconnect /\ ~destroyed
       THEN LET s == ReconnectSchedule(reconnectTries, opts) IN
            /\ reconnectTries' = s.tries
            /\ timers' = timers \cup {[id |-> k, delay |-> s.delay]}
       ELSE UNCHANGED <<reconnectTries, timers>>
    /\ last' = Event(<<"close">>, FALSE)
    /\ hist' = [closes |-> hist.closes + 1, afterClose |-> reconnectTries']
    /\ callbacks' = <<>>
    /\ calls' = Fire(Unheld(calls, k, Streams),
                     [i \in 1..Len(callbacks) |-> callbacks[i].call], "rejected")
    /\ UNCHANGED <<opts, probe, socket, destroyed, errorListener>>

\* 'close' on socket k.
Close(k) ==
    /\ Live(k)
    /\ sockets' = [sockets EXCEPT ![k] = "CLOSED"]
    /\ connected' = FALSE
    /\ IF opts.autoReconnect /\ ~destroyed
       THEN LET s == ReconnectSchedule(reconnectTries, opts) IN
            /\ reconnectTries' = s.tries
            /\ timers' = timers \cup {[id |-> k, delay |-> s.delay]}
            /\ last' = Event(<<"close">>, FALSE)
       ELSE /\ UNCHANGED <<reconnectTries, timers>>
            /\ last' = Event(<<"close">>, FALSE)
    /\ hist' = [closes |-> hist.closes + 1, afterClose |-> reconnectTries']
    /\ calls' = Unheld(calls, k, Streams)
    /\ UNCHANGED <<opts, probe, socket, destroyed, callbacks, errorListener>>

\* A faulty timer callback: it never calls connect().
TimerFireNoConnect(t) ==
    /\ t \in timers
    /\ timers' = timers \ {t}
    /\ last' = NoEvent
    /\ UNCHANGED <<opts, probe, sockets, socket, reconnectTries, destroyed, connected,
                   callbacks, calls, errorListener, hist>>

\* A faulty timer callback: it calls connect() without looking at destroyed.
TimerFireUnguarded(t) ==
    /\ t \in timers
    /\ timers' = timers \ {t}
    /\ StartConnect
    /\ last' = NoEvent
    /\ UNCHANGED <<opts, probe, reconnectTries, destroyed, connected, callbacks, calls,
                   errorListener, hist>>

\* A reconnect timer fires.
TimerFire(t) ==
    /\ t \in timers
    /\ timers' = timers \ {t}
    /\ IF ~destroyed
       THEN StartConnect
       ELSE UNCHANGED <<sockets, socket>>
    /\ last' = NoEvent
    /\ UNCHANGED <<opts, probe, reconnectTries, destroyed, connected, callbacks, calls,
                   errorListener, hist>>

\* 'message' on socket k carrying {action, status, stream}.  emit('error')
\* with no listener subscribed throws (EventEmitter), which ends the handler.
Message(k, stream, status, action) ==
    /\ sockets[k] = "OPEN"
    /\ IF status = OK
       THEN LET r == ResolveCallbacks(callbacks, stream) IN
            /\ callbacks' = r.callbacks
            /\ calls' = Fire(Unheld(calls, k, {stream}), r.invoked, "resolved")
            /\ last' = Event(IF action = ACTION_CONNECT THEN <<"stream-data">> ELSE <<>>,
                             FALSE)
       ELSE IF errorListener
       THEN LET r == RejectCallbacks(callbacks, stream) IN
            /\ callbacks' = r.callbacks
            /\ calls' = Fire(Unheld(calls, k, {stream}), r.invoked, "rejected")
            /\ last' = Event(<<"error">>, FALSE)
       ELSE /\ callbacks' = callbacks
            /\ calls' = Unheld(calls, k, {stream})
            /\ last' = Event(<<"error">>, TRUE)
    /\ UNCHANGED <<opts, probe, sockets, socket, reconnectTries, destroyed, connected,
                   timers, errorListener, hist>>

\* A faulty error handler: it does what the close handler does.
SocketErrorClosing(k) == Close(k)

\* 'error' on socket k.
SocketError(k) ==
    /\ Live(k)
    /\ last' = Event(<<"error">>, ~errorListener)
    /\ UNCHANGED <<opts, probe, sockets, socket, reconnectTries, destroyed, connected,
                   callbacks, timers, calls, errorListener, hist>>

\* The names a watchStream call may use.  Stream names are interchangeable
\* (no operation looks inside one), so the first call is given "A".
NamesToWatch == IF Issued = {} THEN {"A"} ELSE Streams

Next ==
    \/ UserConnect
    \/ \E name \in NamesToWatch : WatchStream(name)
    \/ \E b \in BOOLEAN : SetErrorListener(b)
    \/ \E c \in Calls : Signal(c)
    \/ \E k \in 1..Len(sockets) : Open(k)
    \/ \E k \in 1..Len(sockets) : Close(k)
    \/ \E t \in timers : TimerFire(t)
    \/ \E k \in 1..Len(sockets), stream \in Streams, status \in Statuses,
          action \in MsgActions : Message(k, stream, status, action)
    \/ \E k \in 1..Len(sockets) : SocketError(k)

Spec == Init /\ [][Next]_vars

\* ---- the connection lifecycle on its own --------------------------------
\* Every caller of connect() and every open, close and timer event; left out
\* are the handlers that write none of sockets, socket, connected,
\* reconnectTries and timers (frames, transport errors, the peer's offer,
\* listeners).
LifecycleNext ==
    \/ UserConnect
    \/ \E name \in NamesToWatch : WatchStream(name)
    \/ \E k \in 1..Len(sockets) : Open(k)
    \/ \E k \in 1..Len(sockets) : Close(k)
    \/ \E t \in timers : TimerFire(t)

LifecycleSpec == Init /\ [][LifecycleNext]_vars

\* ---- fairness: what the runtime and the network guarantee --------------
\* A pending timer fires; a connecting socket opens or closes; a created peer
\* emits its offer; the server answers a request it holds while the socket
\* stays open.  Nothing makes the application call watchStream or connect,
\* and nothing makes an open socket close.
Settle(k) ==
    /\ k <= Len(sockets)
    /\ sockets[k] = "CONNECTING"
    /\ (Open(k) \/ Close(k))

Respond(c) ==
    /\ calls[c].pc = "sent"
    /\ calls[c].sock # 0
    /\ \E status \in Statuses, action \in MsgActions :
          Message(calls[c].sock, calls[c].name, status, action)

Fairness ==
    /\ \A k \in 1..MaxSockets : WF_vars(Settle(k))
    /\ \A k \in 1..MaxSockets :
          WF_vars(\E t \in timers : t.id = k /\ TimerFire(t))
    /\ \A c \in Calls : WF_vars(Signal(c))
    /\ \A c \in Calls : WF_vars(Respond(c))

FairSpec == Init /\ [][Next]_vars /\ Fairness

\* The lifecycle with the one guarantee the runtime gives it: a timer set
\* with setTimeout fires.
TimerFairness ==
    \A k \in 1..MaxSockets :
        WF_vars(\E t \in timers : t.id = k /\ TimerFire(t))

FairLifecycleSpec == Init /\ [][LifecycleNext]_vars /\ TimerFairness

\* ---- the lifecycle with transport errors ----------------------------------
\* The lifecycle together with the socket's 'error' event and the application
\* subscribing to and unsubscribing from 'error'.
TransportNext ==
    \/ LifecycleNext
    \/ \E b \in BOOLEAN : SetErrorListener(b)
    \/ \E k \in 1..Len(sockets) : SocketError(k)

TransportSpec == Init /\ [][TransportNext]_vars

\* ---- the lifecycle with a shutdown -----------------------------------------
\* client.ts declares `destroyed` (line 72) and reads it in the close handler
\* and in the timer callback, but has no method that writes it.  The
\* specification's shutdown() "sets a terminal destroyed flag" and "does not
\* itself fail pending calls"; it is modelled from those words so that the two
\* guards can be exercised.
Shutdown ==
    /\ ~destroyed
    /\ destroyed' = TRUE
    /\ last' = NoEvent
    /\ UNCHANGED <<opts, probe, sockets, socket, reconnectTries, connected, callbacks,
                   timers, calls, errorListener, hist>>

ShutdownNext ==
    \/ LifecycleNext
    \/ Shutdown

ShutdownSpec == Init /\ [][ShutdownNext]_vars

\* ---- the registry operations on their own -------------------------------
\* resolveCallbacks / rejectCallbacks are pure in the registry and the stream:
\* they are applied here to every registry of up to MaxRegistry entries, the
\* entries being distinct calls numbered by their place in the list.
Registries ==
    UNION {[1..n -> Streams] : n \in 0..MaxRegistry}

EntriesOf(names) == [i \in 1..Len(names) |-> [stream |-> names[i], call |-> i]]

FilterInit ==
    /\ opts = DEFAULT_OPTS
    /\ sockets = <<>>
    /\ socket = 0
    /\ reconnectTries = 0
    /\ destroyed = FALSE
    /\ connected = FALSE
    /\ \E names \in Registries : callbacks = EntriesOf(names)
    /\ timers = {}
    /\ calls = [c \in Calls |-> IdleCall]
    /\ errorListener = FALSE
    /\ last = NoEvent
    /\ hist = [closes |-> 0, afterClose |-> -1]
    /\ probe = NoProbe

ResolveCallbacksOp(stream) ==
    LET r == ResolveCallbacks(callbacks, stream) IN
    /\ callbacks' = r.callbacks
    /\ probe' = [op |-> "resolve", stream |-> stream, before |-> callbacks,
                 invoked |-> r.invoked, visited |-> r.visited]
    /\ UNCHANGED <<opts, sockets, socket, reconnectTries, destroyed, connected,
                   timers, calls, errorListener, last, hist>>

RejectCallbacksOp(stream) ==
    LET r == RejectCallbacks(callbacks, stream) IN
    /\ callbacks' = r.callbacks
    /\ probe' = [op |-> "reject", stream |-> stream, before |-> callbacks,
                 invoked |-> r.invoked, visited |-> r.visited]
    /\ UNCHANGED <<opts, sockets, socket, reconnectTries, destroyed, connected,
                   timers, calls, errorListener, last, hist>>

FilterNext ==
    \/ \E stream \in Streams : ResolveCallbacksOp(stream)
    \/ \E stream \in Streams : RejectCallbacksOp(stream)

FilterSpec == FilterInit /\ [][FilterNext]_vars

\* ======================= the claims ======================================

InRegistry(c) == \E i \in 1..Len(callbacks) : callbacks[i].call = c

Registered(c) == calls[c].pc \in {"registered", "sent"}

Interval == opts.reconnectInterval * opts.reconnectIntervalMultiplier

Reconnecting == opts.autoReconnect /\ ~destroyed

\* C1: connect(), called by watchStream while the client is not connected or
\* by the reconnect timer, never creates a socket while an earlier socket is
\* still Connecting or Open, so at most one socket is live at any moment.
C1_OneLiveSocket ==
    [][(/\ \/ \E name \in Streams : WatchStream(name)
           \/ \E t \in timers : TimerFire(t)
        /\ Len(sockets') > Len(sockets))
       => LiveSockets = {}]_vars

\* C2: of two watchStream calls for one stream name issued one after the
\* other, with no response dispatched to either and no later call for the
\* name, the earlier one is the one whose failure handler received the
\* cancellation error and the later one is the one that stays registered.
C2_LaterCallStaysRegistered ==
    \A c1, c2 \in Calls :
        (/\ c1 < c2
         /\ calls[c1].name = calls[c2].name
         /\ Registered(c1) /\ Registered(c2)
         /\ calls[c1].outcome \notin {"resolved", "rejected"}
         /\ calls[c2].outcome \notin {"resolved", "rejected"}
         /\ \A c3 \in Calls : c3 > c2 /\ Registered(c3) => calls[c3].name # calls[c2].name)
        => (/\ calls[c1].outcome = "superseded"
            /\ calls[c2].outcome = "none"
            /\ InRegistry(c2)
            /\ ~InRegistry(c1))

\* C3: the registry never holds two entries for the same stream name.
C3_OneEntryPerStream ==
    \A stream \in Streams : Cardinality(EntriesFor(callbacks, stream)) <= 1

\* C3 witness: a second call for a name has registered over a pending first one.
C3_Witness ==
    \E c1, c2 \in Calls :
        /\ c1 # c2
        /\ calls[c1].name = calls[c2].name
        /\ calls[c1].outcome = "superseded"
        /\ InRegistry(c2)
        /\ Cardinality(EntriesFor(callbacks, calls[c2].name)) = 1

\* C4: over its whole life a pending call has a handler invoked at most once.
C4_FiresAtMostOnce == \A c \in Calls : calls[c].fired <= 1

\* C4 witness: a call was resolved, a later call for the same stream was
\* registered and a later frame for that stream resolved it in turn.
C4_Witness ==
    \E c1, c2 \in Calls :
        /\ c1 < c2
        /\ calls[c1].name = calls[c2].name
        /\ calls[c1].outcome = "resolved" /\ calls[c1].fired = 1
        /\ calls[c2].outcome = "resolved" /\ calls[c2].fired = 1

\* C5: right after resolveCallbacks(S) or rejectCallbacks(S) the registry has
\* no entry for S, and the same operation applied again invokes no handler and
\* returns the registry as it is.
C5_CleanupIsIdempotent ==
    probe.op # "none" =>
        LET again == IF probe.op = "resolve"
                     THEN ResolveCallbacks(callbacks, probe.stream)
                     ELSE RejectCallbacks(callbacks, probe.stream)
        IN  /\ EntriesFor(callbacks, probe.stream) = {}
            /\ again.invoked = <<>>
            /\ again.callbacks = callbacks

\* C5 witness: the operation removed two adjacent entries for S from a
\* registry that also held an entry for another stream after them.
C5_Witness ==
    /\ probe.op = "reject"
    /\ Len(callbacks) >= 1
    /\ \E i \in 1..(Len(probe.before) - 2) :
          /\ probe.before[i].stream = probe.stream
          /\ probe.before[i + 1].stream = probe.stream
          /\ probe.before[i + 2].stream # probe.stream

\* C6: every pending call registered by watchStream eventually has its
\* resolve or its reject handler invoked.
C6_PendingCallEventuallyFires ==
    \A c \in Calls : [](Registered(c) => <>(calls[c].fired > 0))

\* C7: a watchStream call suspended on connect() is eventually released: the
\* connect() call completes, by its socket opening or by a failure.
C7_ConnectEventuallyCompletes ==
    \A c \in Calls : [](calls[c].pc = "awaitConnect" => <>(calls[c].pc # "awaitConnect"))

\* C8: reconnectTries is 0 once an Open has been handled, and a Close with
\* auto-reconnect on that follows a Close with no Open in between leaves it
\* strictly greater than the earlier Close left it.
C8_CounterResetsAndGrows ==
    [][\A k \in 1..Len(sockets) :
          /\ Open(k) => reconnectTries' = 0
          /\ (Close(k) /\ Reconnecting /\ hist.afterClose # -1)
                => reconnectTries' > hist.afterClose]_vars

\* C8 witness: after a call was registered (an Open was handled), two Closes
\* in a row have been handled and the counter stands at 2.
C8_Witness ==
    /\ Reconnecting
    /\ \E c \in Calls : Registered(c)
    /\ hist.closes = 2
    /\ hist.afterClose = 2
    /\ reconnectTries = 2

\* C9: with auto-reconnect on, the k-th Close in a row since the last Open
\* schedules the reconnect after k * reconnectInterval *
\* reconnectIntervalMultiplier; after an Open the count starts at 1 again.
C9_DelayOfKthClose ==
    [][\A k \in 1..Len(sockets) :
          (Close(k) /\ Reconnecting)
             => /\ [id |-> k, delay |-> (hist.closes + 1) * Interval] \in timers'
                /\ Cardinality(timers') = Cardinality(timers) + 1]_vars

\* C9 witness: with the default options the third Close in a row has
\* scheduled a reconnect after 6000.
C9_Witness ==
    /\ opts = DEFAULT_OPTS
    /\ hist.closes = 3
    /\ \E t \in timers : t.delay = 6000

\* C10 as stated: the delay is the counter's value before the increment times
\* the interval and the multiplier, so the first Close after an Open schedules
\* the reconnect with delay 0.
C10_DelayFromOldCounter ==
    [][\A k \in 1..Len(sockets) :
          (Close(k) /\ Reconnecting)
             => /\ reconnectTries' = reconnectTries + 1
                /\ [id |-> k, delay |-> reconnectTries * Interval] \in timers']_vars

\* C10 amended: the counter is incremented first and the delay is its new
\* value times the interval and the multiplier, so the first Close after an
\* Open schedules the reconnect with delay 1 * interval * multiplier.
C10_DelayFromNewCounter ==
    [][\A k \in 1..Len(sockets) :
          (Close(k) /\ Reconnecting)
             => /\ reconnectTries' = reconnectTries + 1
                /\ [id |-> k, delay |-> reconnectTries' * Interval] \in timers'
                /\ hist.closes = 0 =>
                      [id |-> k, delay |-> opts.reconnectInterval
                                           * opts.reconnectIntervalMultiplier] \in timers']_vars

\* C10 witness: the first Close after an Open, with multiplier 2 and interval
\* 500, has scheduled the reconnect after 1000.
C10_Witness ==
    /\ opts.autoReconnect
    /\ opts.reconnectIntervalMultiplier = 2
    /\ \E c \in Calls : Registered(c)
    /\ hist.closes = 1
    /\ reconnectTries = 1
    /\ \E t \in timers : t.delay = 1000

\* The reconnect timer set by the close handler of socket k is pending.
TimerPending(k) == \E t \in timers : t.id = k

\* C11: a Close handled while autoReconnect is on and the client is not
\* destroyed sets a reconnect timer; that timer eventually fires, and when it
\* fires connect() is called: a new socket is created and becomes this.socket.
\* This holds after every number of Closes in a row (the model stops creating
\* sockets at MaxSockets, where the timer can no longer fire).
C11_CloseEventuallyReconnects ==
    /\ [][\A k \in 1..Len(sockets) :
             /\ (Close(k) /\ Reconnecting) => TimerPending(k)'
             /\ (TimerPending(k) /\ ~TimerPending(k)' /\ ~destroyed)
                   => /\ Len(sockets') = Len(sockets) + 1
                      /\ sockets'[Len(sockets')] = "CONNECTING"
                      /\ socket' = Len(sockets')]_vars
    /\ \A k \in 1..MaxSockets :
          TimerPending(k) ~> (~TimerPending(k) \/ Len(sockets) = MaxSockets)

\* C11 witness: two Closes in a row with no Open in between, each followed by
\* its timer's connect(): the third socket is the second reconnect attempt.
C11_Witness ==
    /\ Reconnecting
    /\ hist.closes = 2
    /\ reconnectTries = 2
    /\ timers = {}
    /\ sockets = <<"CLOSED", "CLOSED", "CONNECTING">>
    /\ socket = 3

\* C12: while destroyed is set or autoReconnect is false the reconnect path
\* starts no connection: a Close sets no timer, and a timer set before the flag
\* was set fires without creating a socket or replacing this.socket.  With
\* autoReconnect false no timer is ever set.
C12_NoReconnectOnceDestroyed ==
    /\ [][\A k \in 1..Len(sockets) :
             (Close(k) /\ ~Reconnecting) => timers' = timers]_vars
    /\ [][\A t \in timers :
             (TimerFire(t) /\ destroyed) => (sockets' = sockets /\ socket' = socket)]_vars
    /\ [](~opts.autoReconnect => timers = {})

\* C12 witness: a Close set a timer, the flag was set, the timer fired and
\* no second socket exists.
C12_Witness ==
    /\ destroyed
    /\ opts.autoReconnect
    /\ reconnectTries = 1
    /\ timers = {}
    /\ sockets = <<"CLOSED">>

\* The calls that have an entry for `stream` in the registry.
PendingFor(stream) == {callbacks[i].call : i \in EntriesFor(callbacks, stream)}

\* After this step every call that was pending for `stream` has had the handler
\* `kind` invoked and the registry has no entry for `stream`.
Settled(stream, kind) ==
    /\ \A c \in PendingFor(stream) : /\ calls'[c].outcome = kind
                                      /\ calls'[c].fired = calls[c].fired + 1
    /\ EntriesFor(callbacks', stream) = {}

\* C13: a frame whose status is not 200 emits one 'error' notification and
\* rejects every call pending for its stream; with no call pending for that
\* stream the registry is unchanged.
C13_ErrorFrameRejectsPending ==
    [][\A k \in 1..Len(sockets), stream \in Streams, action \in MsgActions,
         status \in Statuses \ {OK} :
          Message(k, stream, status, action)
             => /\ last'.emitted = <<"error">>
                /\ Settled(stream, "rejected")
                /\ PendingFor(stream) = {} => callbacks' = callbacks]_vars

\* C14: a 200 frame resolves every call pending for its stream whatever its
\* action, emits 'stream-data' exactly when the action is 'Connect' and never
\* 'error'; every frame has exactly one of the outcomes stream-data plus
\* resolve, error plus reject, resolve alone.
C14_OneOutcomePerFrame ==
    [][\A k \in 1..Len(sockets), stream \in Streams, action \in MsgActions,
         status \in Statuses :
          Message(k, stream, status, action)
             => /\ status = OK =>
                      /\ Settled(stream, "resolved")
                      /\ last'.emitted = IF action = ACTION_CONNECT
                                         THEN <<"stream-data">> ELSE <<>>
                /\ \/ last'.emitted = <<"stream-data">> /\ Settled(stream, "resolved")
                   \/ last'.emitted = <<"error">> /\ Settled(stream, "rejected")
                   \/ last'.emitted = <<>> /\ Settled(stream, "resolved")]_vars

\* C15: what a frame does to the registry does not depend on listeners: a
\* frame whose status is not 200 rejects and removes every call pending for its
\* stream, a 200 frame resolves and removes them, whether or not an 'error'
\* listener is subscribed.
C15_RoutingIgnoresListeners ==
    [][\A k \in 1..Len(sockets), stream \in Streams, action \in MsgActions,
         status \in Statuses, listening \in BOOLEAN :
          (Message(k, stream, status, action) /\ errorListener = listening)
             => Settled(stream, IF status = OK THEN "resolved" ELSE "rejected")]_vars

\* C16: an 'error' event of the socket emits 'error' and nothing else: the
\* connected flag, the reconnect counter, this.socket, the sockets, the
\* registry, the calls and the timers are as before.  A step that clears the
\* connected flag, advances the reconnect counter or sets a timer is a Close.
C16_TransportErrorOnlyNotifies ==
    /\ [][\A k \in 1..Len(sockets) :
             SocketError(k)
                => /\ last'.emitted = <<"error">>
                   /\ UNCHANGED <<connected, reconnectTries, socket, sockets,
                                  callbacks, timers, calls>>]_vars
    /\ [][(\/ connected /\ ~connected'
           \/ reconnectTries' > reconnectTries
           \/ ~(timers' \subseteq timers))
             => \E k \in 1..Len(sockets) : Close(k)]_vars

\* C16 witness: an 'error' event was handled on the open socket of a connected
\* client with a call pending; the client is still connected and the call
\* still pending.
C16_Witness ==
    /\ last.emitted = <<"error">>
    /\ connected
    /\ socket # 0
    /\ sockets[socket] = "OPEN"
    /\ callbacks # <<>>
    /\ timers = {}

\* This step leaves the registry as it is and invokes no call's handler.
RegistryUntouched ==
    /\ callbacks' = callbacks
    /\ \A c \in Calls : /\ calls'[c].fired = calls[c].fired
                         /\ calls'[c].outcome = calls[c].outcome

\* C17: the close handler, the reconnect timer it sets and the Open of the
\* socket that timer created (an Open no watchStream call is waiting for)
\* leave the registry as it is and invoke no pending call's handler.
C17_CloseKeepsRegistry ==
    /\ [][\A k \in 1..Len(sockets) :
             /\ Close(k) => RegistryUntouched
             /\ (/\ Open(k)
                 /\ \A c \in Calls : ~(calls[c].pc = "awaitConnect" /\ calls[c].sock = k))
                   => RegistryUntouched]_vars
    /\ [][\A t \in timers : TimerFire(t) => RegistryUntouched]_vars

\* C17 witness: a call registered on the first socket, that socket closed,
\* the timer created the second socket and it opened; the call is still in
\* the registry, uninvoked.
C17_Witness ==
    /\ opts.autoReconnect
    /\ sockets = <<"CLOSED", "OPEN">>
    /\ timers = {}
    /\ last.emitted = <<"connect">>
    /\ Cardinality(Issued) = 1
    /\ \E c \in Calls : /\ InRegistry(c)
                         /\ calls[c].fired = 0
                         /\ calls[c].outcome = "none"

\* C18: whenever connected is true, this.socket is an open socket, so a
\* watchStream call that skips connect() sends on an open socket.
C18_ConnectedMeansSocketOpen ==
    connected => (socket # 0 /\ sockets[socket] = "OPEN")

\* C19: resolveCallbacks(S) and rejectCallbacks(S) hand every entry of the
\* registry to the handler exactly once, in order, invoke exactly the entries
\* for S, and leave the other entries in the registry in their order.
C19_EveryEntryVisitedOnce ==
    probe.op # "none" =>
        LET before == probe.before
            CallOf(e) == e.call
            CallsOf(es) == [i \in 1..Len(es) |-> es[i].call]
            IsFor(e) == e.stream = probe.stream
            IsOther(e) == e.stream # probe.stream
        IN  /\ probe.visited = CallsOf(before)
            /\ probe.invoked = CallsOf(SelectSeq(before, IsFor))
            /\ callbacks = SelectSeq(before, IsOther)

\* C19 witness: two adjacent entries for S, between entries for another
\* stream, were removed by resolveCallbacks(S).
C19_Witness ==
    /\ probe.op = "resolve"
    /\ Len(probe.before) = 4
    /\ probe.before[1].stream # probe.stream
    /\ probe.before[2].stream = probe.stream
    /\ probe.before[3].stream = probe.stream
    /\ probe.before[4].stream # probe.stream
    /\ Len(callbacks) = 2
    /\ Len(probe.visited) = 4

====
